---- MODULE Spec2Model ----
(***************************************************************************)
(* A model of the recommendation pipeline of zibochat/ai-system:           *)
(* recommender.recommend (intent classification, candidate retrieval,      *)
(* ranking, summary selection, the completion cascade, greeting            *)
(* post-processing) together with the parts of llm_agent it calls.         *)
(*                                                                         *)
(* Texts are sequences of tokens.  A token stands for a run of characters  *)
(* of one class:                                                           *)
(*   "sp"  whitespace                                                      *)
(*   "pu"  punctuation (a non-word, non-space character)                   *)
(*   "G"   a greeting word of _strip_redundant_greeting's patterns         *)
(*   "M"   the phrase the apology starts with (tested by startswith)       *)
(*   "R"   the rest of the apology sentence                                *)
(*   "w"   any other word                                                  *)
(* Messages and product texts are sequences / sets of the literal words    *)
(* the code's keyword lists test for (transliterated):                     *)
(*   salam, chetori, pishnahad, krem, abresan, moisturizer, mask, badan,   *)
(*   surat.                                                                *)
(* A message is the sequence of its pieces, written one after the other:   *)
(* words ("SALAM" is a greeting word typed in capitals), "sp" whitespace,  *)
(* "sep" a character of the class _is_greeting collapses (comma, full      *)
(* stop, "!", "?", ":", ";", "~", dashes), "paren" a punctuation character *)
(* outside that class (a bracket, a quote, the Arabic question mark).      *)
(***************************************************************************)
EXTENDS Integers, Sequences, FiniteSets, TLC

VARIABLES
    llm_agent,            \* module global: llm_agent was imported (USE_LANGCHAIN)
    langchain,            \* llm_agent._langchain_available()
    BASE_URL,             \* OPENAI_BASE_URL is set (API_KEY always is)
    conversation_buffer,  \* ConversationMemory.conversation_buffer of the user
    pc,                   \* position of the turn inside recommend
    user_message, max_count, user_id,   \* arguments of recommend
    intent,               \* branch taken: greeting / conversation / product
    products, comments, index_meta,     \* load_data() and the products index
    retrieved,            \* strategies run so far, each with its result
    intent_products, prio1, prio2, candidates, chosen_priority, summaries,
    template,             \* prompt template chosen
    answer,               \* local variable answer
    calls,                \* completion tiers invoked in this turn, in order
    cascade_answer,       \* answer as the cascade leaves it (before post-processing)
    log,                  \* the log recommend builds
    result,               \* "none" | "returned" | "raised"
    index_outcome,        \* what the similarity index did in this turn
    similarity_hits,      \* the product ids of the hits it returned, best first
    turn,                 \* number of the turn (calls of recommend so far)
    strip_runs,           \* a text and the results of stripping it repeatedly
    _user_memories,       \* llm_agent._user_memories: user id -> memory object
    objects,              \* the ConversationMemory objects created, by identity
    store,                \* conversation snippets persisted in the user's index
    tpc,                  \* position of each concurrent turn
    tloc,                 \* locals of each concurrent turn
    _conversation_cache,  \* api._conversation_cache: key -> list of messages
    _profile_cache,       \* api._profile_cache: the user ids with a cached profile
    api_request,          \* the request the API handled last
    api_response,         \* and what it answered
    clock,                \* int(time.time()) when it was read last
    meta,                 \* the users' meta.json: document id -> document
    interactions          \* the interactions given to add_interaction so far

vars == <<llm_agent, langchain, BASE_URL, conversation_buffer, pc, user_message,
          max_count, user_id, intent, products, comments, index_meta, retrieved,
          intent_products, prio1, prio2, candidates, chosen_priority, summaries,
          template, answer, calls, cascade_answer, log, result, index_outcome,
          similarity_hits, turn, strip_runs, _user_memories, objects, store, tpc, tloc,
          _conversation_cache, _profile_cache, api_request, api_response,
          clock, meta, interactions>>

(***************************************************************************)
(* Bounds of the model.                                                    *)
(***************************************************************************)
MaxTextLen == 1      \* tokens in a text the completion service returns
MaxMsgLen == 1       \* words in a user message
MaxProducts == 2     \* products in the catalog
MaxComments == 1     \* comments per product
MaxCount == 1        \* largest max_count passed to recommend
MaxHits == 2         \* hits the similarity index returns
MaxTurns == 2        \* turns of a conversation, and turns running concurrently
MaxStripLen == 4     \* tokens in a text given to the greeting stripper
MaxRequests == 3     \* requests the API handles
MaxInteractions == 12  \* interactions added to one conversation memory
MaxRecordings == 2   \* interactions recorded while the clock is observed

(***************************************************************************)
(* Values.                                                                 *)
(***************************************************************************)
None == <<"None">>          \* Python's None, where a text is expected
RAISE == <<"raise">>        \* the outcome "the call raised"
PriorityNone == -1          \* chosen_priority = None / "priority_used": None

Min(a, b) == IF a < b THEN a ELSE b
Max(a, b) == IF a > b THEN a ELSE b

SeqsUpTo(S, n) == UNION {[1..k -> S] : k \in 0..n}

Range(s) == {s[i] : i \in 1..Len(s)}

\* Python's truthiness of answer: None and "" are falsy.
Falsy(a) == a = None \/ a = <<>>

(***************************************************************************)
(* Text functions.                                                         *)
(***************************************************************************)
IsSpace(c) == c = "sp"
IsNonWord(c) == c \in {"sp", "pu"}

RECURSIVE DropWhileSpace(_)
DropWhileSpace(t) ==
    IF t # <<>> /\ IsSpace(Head(t)) THEN DropWhileSpace(Tail(t)) ELSE t

RECURSIVE DropWhileNonWord(_)
DropWhileNonWord(t) ==
    IF t # <<>> /\ IsNonWord(Head(t)) THEN DropWhileNonWord(Tail(t)) ELSE t

RECURSIVE DropTrailingSpace(_)
DropTrailingSpace(t) ==
    IF t # <<>> /\ IsSpace(t[Len(t)])
    THEN DropTrailingSpace(SubSeq(t, 1, Len(t) - 1))
    ELSE t

\* str.strip()
Strip(t) == DropTrailingSpace(DropWhileSpace(t))

\* the fixed apology of the product branch and the prefix llm_unavailable tests
APOLOGY == <<"M", "R">>
StartsWithApologyPrefix(a) == a # <<>> /\ a # None /\ Head(a) = "M"

\* _strip_redundant_greeting: non-strings are returned as they are; leading
\* whitespace and non-word characters go, then one leading greeting word with
\* the non-word run after it, then leading separators; an empty outcome gives
\* the input back.
_strip_redundant_greeting(text) ==
    IF text = None THEN text
    ELSE LET t == DropWhileNonWord(DropWhileSpace(text))
             out == IF t # <<>> /\ Head(t) = "G"
                    THEN DropWhileNonWord(Tail(t))
                    ELSE t
             out2 == DropWhileNonWord(out)
         IN IF out2 # <<>> THEN out2 ELSE text

(***************************************************************************)
(* Domains the inputs are drawn from.                                      *)
(***************************************************************************)
TextAlphabet == {"sp", "G", "M", "w"}
Texts == SeqsUpTo(TextAlphabet, MaxTextLen)
Outcomes(T) == T \cup {RAISE}

MsgWords == {"salam", "chetori", "krem", "moisturizer"}
Messages == SeqsUpTo(MsgWords, MaxMsgLen)

UserIds == {"None", "u1"}

\* concurrent turns and the users they belong to
Turns == 1..MaxTurns
ConcUsers == {"u1", "u2"}
NoLocals == [user |-> "None", phase |-> "none", mem |-> 0, seen |-> {}]

\* an interaction of the conversation buffer: the user's message, the answer
\* and (in place of the timestamp) the number of the turn that recorded it;
\* 0 for what was recorded earlier
InitBuffers ==
    { <<>>,
      << [user |-> <<"salam">>, bot |-> <<"G", "w">>, turn |-> 0] >>,
      << [user |-> <<"chetori">>, bot |-> <<"w">>, turn |-> 0] >> }


\* raw values of a product's inventory field, as _is_available tells them apart
StockValues == {"absent", "n0", "n3", "s_true", "s_no", "s_5", "s_0", "s_other"}

(***************************************************************************)
(* Intent classification.                                                  *)
(***************************************************************************)
greetings == {"salam"}
product_words == {"pishnahad", "krem", "moisturizer", "mask"}
moist_words == {"abresan", "moisturizer"}

\* str.lower()
Lower(a) == IF a = "SALAM" THEN "salam" ELSE a
LowerText(text) == [i \in 1..Len(text) |-> Lower(text[i])]

\* the characters re.sub(r"[\s،,.!?:;~\-–—]+", " ", t) turns into one space
IsSeparator(a) == a \in {"sp", "sep"}

RECURSIVE SplitTokens(_, _, _)
\* t_compact.split(): the maximal runs of pieces that are not separators
SplitTokens(text, cur, acc) ==
    IF text = <<>> THEN (IF cur = <<>> THEN acc ELSE Append(acc, cur))
    ELSE IF IsSeparator(Head(text))
         THEN SplitTokens(Tail(text), <<>>, IF cur = <<>> THEN acc ELSE Append(acc, cur))
         ELSE SplitTokens(Tail(text), Append(cur, Head(text)), acc)

_is_greeting(text) ==
    LET tokens == SplitTokens(LowerText(text), <<>>, <<>>)
    IN /\ 0 < Len(tokens)
       /\ Len(tokens) <= 2
       /\ \A i \in 1..Len(tokens) : Len(tokens[i]) = 1 /\ tokens[i][1] \in greetings

_is_product_intentAlways(text) == TRUE

\* any(w in t for w in product_words): a substring test on the lowercased text
_is_product_intent(text) == \E i \in 1..Len(text) : Lower(text[i]) \in product_words

_detect_intent(text) ==
    IF \E i \in 1..Len(text) : Lower(text[i]) \in moist_words
    THEN "moisturizer" ELSE "None"

(***************************************************************************)
(* Availability, tagging, matching.                                        *)
(***************************************************************************)
\* _is_available: numbers by bool(), digit strings by > 0, true/yes/1 and
\* false/no/0 strings; anything else leaves the availability unknown (None).
_is_available(prod) ==
    CASE prod.stock = "absent" -> "None"
      [] prod.stock = "n0" -> "False"
      [] prod.stock = "n3" -> "True"
      [] prod.stock = "s_5" -> "True"
      [] prod.stock = "s_0" -> "False"
      [] prod.stock = "s_true" -> "True"
      [] prod.stock = "s_no" -> "False"
      [] OTHER -> "None"

\* the tagging loop: _has_comments and _available are added to every product
TagProduct(p, cmts) ==
    [id |-> p.id, stock |-> p.stock, terms |-> p.terms,
     _has_comments |-> (p.id \in DOMAIN cmts /\ cmts[p.id] > 0),
     _available |-> _is_available(p)]

TagProducts(ps, cmts) == [i \in 1..Len(ps) |-> TagProduct(ps[i], cmts)]

positive == {"abresan", "moisturizer"}
form_words == {"krem", "moisturizer"}
negative == {"mask", "badan"}
generic == {"mask", "krem", "abresan"}

_matches_intentNoExclusion(prod, text, sub) ==
    IF sub = "moisturizer"
    THEN /\ Range(LowerText(text)) \cap positive # {}
         /\ prod.terms \cap positive # {}
         /\ prod.terms \cap form_words # {}
    ELSE \E k \in generic : k \in Range(LowerText(text)) /\ k \in prod.terms

_matches_intent(prod, text, sub) ==
    IF sub = "moisturizer"
    THEN IF prod.terms \cap negative # {} THEN FALSE
         ELSE /\ Range(LowerText(text)) \cap positive # {}
              /\ prod.terms \cap positive # {}
              /\ prod.terms \cap form_words # {}
    ELSE \E k \in generic : k \in Range(LowerText(text)) /\ k \in prod.terms

_is_face(prod) ==
    /\ prod.terms \cap {"surat", "krem"} # {}
    /\ prod.terms \cap {"badan"} = {}

(***************************************************************************)
(* Sequence helpers: list comprehension, slicing, sorted(..., reverse=True).*)
(***************************************************************************)
RECURSIVE FilterIdx(_, _, _)
\* the subsequence of s at the positions i >= from with keep[i]
FilterIdx(s, keep, from) ==
    IF from > Len(s) THEN <<>>
    ELSE (IF keep[from] THEN <<s[from]>> ELSE <<>>) \o FilterIdx(s, keep, from + 1)

\* Python's s[:n]
Take(s, n) ==
    IF n >= 0 THEN SubSeq(s, 1, Min(n, Len(s)))
    ELSE SubSeq(s, 1, Max(Len(s) + n, 0))

RECURSIVE InsertDescUnstable(_, _)
InsertDescUnstable(sorted, e) ==
    IF sorted = <<>> THEN <<e>>
    ELSE IF Head(sorted).k > e.k
         THEN <<Head(sorted)>> \o InsertDescUnstable(Tail(sorted), e)
         ELSE <<e>> \o sorted

RECURSIVE InsertDesc(_, _)
\* e goes after every element whose key is at least its own
InsertDesc(sorted, e) ==
    IF sorted = <<>> THEN <<e>>
    ELSE IF Head(sorted).k >= e.k
         THEN <<Head(sorted)>> \o InsertDesc(Tail(sorted), e)
         ELSE <<e>> \o sorted

RECURSIVE SortPairs(_, _)
SortPairs(pairs, acc) ==
    IF pairs = <<>> THEN acc ELSE SortPairs(Tail(pairs), InsertDesc(acc, Head(pairs)))

\* sorted(s, key=..., reverse=True), keys[i] the key of s[i]: stable, descending
SortedReverse(s, keys) ==
    LET pairs == [i \in 1..Len(s) |-> [v |-> s[i], k |-> keys[i]]]
        srt == SortPairs(pairs, <<>>)
    IN [i \in 1..Len(srt) |-> srt[i].v]

_score(prod) ==
    IF prod._available = "True" THEN 2
    ELSE IF prod._available = "None" THEN 1
    ELSE 0


(***************************************************************************)
(* Catalogs (data/products.json, data/comments.json, the products index)   *)
(* and similarity-search outcomes.                                         *)
(***************************************************************************)
CatalogsOver(Stocks, TermSets, n, IndexIds) ==
    UNION { { [products |-> [i \in 1..k |-> [id |-> i, stock |-> f[i].stock,
                                             terms |-> f[i].terms]],
               comments |-> c,
               index |-> ix] :
                f \in [1..k -> [stock : Stocks, terms : TermSets]],
                c \in [1..k -> 0..MaxComments],
                ix \in SUBSET (IndexIds \cap 1..k) } : k \in 0..n }

\* what the products index does when it is queried: its directory is missing,
\* loading it raises, the similarity search raises, or the search returns hits;
\* a hit carries a product id (0: an id no catalog product has)
HitOutcomes ==
    {[index |-> s, hits |-> <<>>] : s \in {"missing", "load_raises", "search_raises"}} \cup
    {[index |-> "ok", hits |-> h] : h \in SeqsUpTo(0..MaxProducts, MaxHits)}
NoQuery == [index |-> "none", hits |-> <<>>]

\* the index's behaviour as the turn saw it
IndexOutcomeOf(b) ==
    IF b.index = "ok" THEN (IF b.hits = <<>> THEN "no_hits" ELSE "hits") ELSE b.index

\* load_user_index gives None for a missing directory and re-raises a load
\* error; retrieve_user_memory turns None and a failed search into [] and
\* lets the load error through
retrieve_user_memory(b) ==
    CASE b.index = "missing" -> [ok |-> TRUE, hits |-> <<>>]
      [] b.index = "load_raises" -> [ok |-> FALSE, hits |-> <<>>]
      [] b.index = "search_raises" -> [ok |-> TRUE, hits |-> <<>>]
      [] b.index = "ok" -> [ok |-> TRUE, hits |-> b.hits]
      [] OTHER -> [ok |-> TRUE, hits |-> <<>>]

(***************************************************************************)
(* Candidate retrieval (semantic, rule-based, popularity fallback).        *)
(***************************************************************************)
RECURSIVE Dedupe(_, _)
\* product_ids: the hits' ids, each once, in order of first occurrence
Dedupe(hits, acc) ==
    IF hits = <<>> THEN acc
    ELSE Dedupe(Tail(hits),
                IF Head(hits) \in Range(acc) THEN acc ELSE Append(acc, Head(hits)))

\* faiss_products: the catalog products whose id is among the hits' ids
SemanticProducts(ps, hits) ==
    LET product_ids == Dedupe(hits, <<>>)
        idset == Range(product_ids)
    IN IF product_ids = <<>> THEN <<>>
       ELSE FilterIdx(ps, [i \in 1..Len(ps) |-> ps[i].id \in idset], 1)

RuleProducts(ps, text) ==
    FilterIdx(ps, [i \in 1..Len(ps) |->
                     _matches_intent(ps[i], text, _detect_intent(text))], 1)

PopularityProductsFaceOnly(ps, cmts, n) ==
    LET ranked == SortedReverse(ps, [i \in 1..Len(ps) |->
                      IF ps[i].id \in DOMAIN cmts THEN cmts[ps[i].id] ELSE 0])
        face_ranked == FilterIdx(ranked, [i \in 1..Len(ranked) |-> _is_face(ranked[i])], 1)
    IN Take(face_ranked, n)

PopularityProducts(ps, cmts, n) ==
    LET ranked == SortedReverse(ps, [i \in 1..Len(ps) |->
                      IF ps[i].id \in DOMAIN cmts THEN cmts[ps[i].id] ELSE 0])
        face_ranked == FilterIdx(ranked, [i \in 1..Len(ranked) |-> _is_face(ranked[i])], 1)
    IN IF face_ranked # <<>> THEN Take(face_ranked, n) ELSE Take(ranked, n)

SemanticBlockKeepsAll(ps, hit) == IF hit.ok THEN SemanticProducts(ps, hit.hits) ELSE ps

\* the semantic block: an exception inside it is logged and intent_products
\* stays empty
SemanticBlock(ps, hit) == IF hit.ok THEN SemanticProducts(ps, hit.hits) ELSE <<>>

\* the strategies recommend runs, in order, each with what it yielded
RetrievalRunAll(ps, cmts, text, n, semTried, hit) ==
    LET sem == SemanticBlock(ps, hit)
        s1 == IF semTried THEN <<[strategy |-> "semantic", result |-> sem]>> ELSE <<>>
        r == RuleProducts(ps, text)
        s2 == Append(s1, [strategy |-> "rule", result |-> r])
        q == PopularityProducts(ps, cmts, n)
    IN Append(s2, [strategy |-> "popularity", result |-> q])

RetrievalRun(ps, cmts, text, n, semTried, hit) ==
    LET sem == SemanticBlock(ps, hit)
        s1 == IF semTried THEN <<[strategy |-> "semantic", result |-> sem]>> ELSE <<>>
        r == RuleProducts(ps, text)
        s2 == IF sem = <<>> THEN Append(s1, [strategy |-> "rule", result |-> r]) ELSE s1
        q == PopularityProducts(ps, cmts, n)
    IN IF sem = <<>> /\ r = <<>>
       THEN Append(s2, [strategy |-> "popularity", result |-> q])
       ELSE s2

\* intent_products after the three blocks: the result of the last strategy run
LastResult(run) == run[Len(run)].result

(***************************************************************************)
(* Ranking, selection, summaries, prompt template.                         *)
(***************************************************************************)
Prio1OfUnfiltered(ips) == ips

Prio1Of(ips) == FilterIdx(ips, [i \in 1..Len(ips) |-> ips[i]._has_comments], 1)
Prio2Of(ips) == FilterIdx(ips, [i \in 1..Len(ips) |-> ~ips[i]._has_comments], 1)

SortByScore(bucket) == SortedReverse(bucket, [i \in 1..Len(bucket) |-> _score(bucket[i])])

ChosenPriorityMixed(p1, p2) == IF p2 # <<>> THEN 2 ELSE IF p1 # <<>> THEN 1 ELSE 3

ChosenPriority(p1, p2) == IF p1 # <<>> THEN 1 ELSE IF p2 # <<>> THEN 2 ELSE 3

CandidatesOfUntruncated(p1, p2, n) == IF p1 # <<>> THEN p1 ELSE p2

CandidatesOf(p1, p2, n) ==
    IF p1 # <<>> THEN Take(p1, n)
    ELSE IF p2 # <<>> THEN Take(p2, n)
    ELSE <<>>

summary_sourceCommentsFirst(p, ix) ==
    IF p._has_comments THEN "comments"
    ELSE IF p.id \in ix THEN "faiss_index"
    ELSE "no_comments"

\* ix: the products with a document in the products index (the indexer writes
\* a non-blank text for each)
summary_source(p, ix) ==
    IF p.id \in ix THEN "faiss_index"
    ELSE IF p._has_comments THEN "comments"
    ELSE "no_comments"

\* the summary text: summarize_comments gives the digest of the index
\* document if there is one, else the digest of the product's comments; a
\* product of source no_comments gets the placeholder with its name
summary_text(p, ix, source) ==
    IF source \in {"faiss_index", "comments"}
    THEN IF p.id \in ix THEN <<"index_digest", p.id>>
         ELSE IF p._has_comments THEN <<"comments_digest", p.id>>
         ELSE <<"no_comments_text">>
    ELSE <<"placeholder", p.id>>

SummariesOf(cands, ix) ==
    [i \in 1..Len(cands) |->
        [id |-> cands[i].id,
         summary |-> summary_text(cands[i], ix, summary_source(cands[i], ix)),
         summary_source |-> summary_source(cands[i], ix)]]

TemplateOf(prio, sums) ==
    IF prio \in {1, 2} /\ sums # <<>> THEN "has_candidates" ELSE "no_candidates"

(***************************************************************************)
(* Conversation memory read by the post-processing step.                   *)
(***************************************************************************)
\* a message as it appears, lowercased, inside the context text
MsgToText(m) ==
    [i \in 1..Len(m) |-> IF Lower(m[i]) \in greetings THEN "G"
                         ELSE IF m[i] = "sp" THEN "sp"
                         ELSE IF m[i] \in {"sep", "paren"} THEN "pu"
                         ELSE "w"]

RECURSIVE ContextOf(_)
ContextOf(recent) ==
    IF recent = <<>> THEN <<>>
    ELSE <<"w">> \o MsgToText(Head(recent).user) \o <<"sp", "w">>
         \o (IF Head(recent).bot = None THEN <<"w">> ELSE Head(recent).bot)
         \o (IF Tail(recent) = <<>> THEN <<>> ELSE <<"sp">>) \o ContextOf(Tail(recent))

\* ConversationMemory.get_recent_context / get_conversation_context
get_conversation_context(buf, num_messages) ==
    ContextOf(SubSeq(buf, Max(1, Len(buf) - num_messages + 1), Len(buf)))


(***************************************************************************)
(* The turn: recommend(profile, user_message, max_count, user_id).         *)
(***************************************************************************)
InitTurn ==
    /\ llm_agent \in BOOLEAN
    /\ langchain \in BOOLEAN
    /\ BASE_URL \in BOOLEAN
    /\ conversation_buffer \in InitBuffers
    /\ pc = "idle"
    /\ user_message = <<>>
    /\ max_count = 0
    /\ user_id = "None"
    /\ intent = "none"
    /\ products = <<>>
    /\ comments = <<>>
    /\ index_meta = {}
    /\ retrieved = <<>>
    /\ intent_products = <<>>
    /\ prio1 = <<>>
    /\ prio2 = <<>>
    /\ candidates = <<>>
    /\ chosen_priority = PriorityNone
    /\ summaries = <<>>
    /\ template = "none"
    /\ answer = None
    /\ calls = <<>>
    /\ cascade_answer = None
    /\ log = <<>>
    /\ result = "none"
    /\ index_outcome = "none"
    /\ similarity_hits = <<>>
    /\ turn = 0

\* no text is being stripped on its own, no concurrent turn is running
NoStrip == strip_runs = <<>>
NoConc ==
    /\ _user_memories = [u \in ConcUsers |-> 0]
    /\ objects = <<>>
    /\ store = [u \in ConcUsers |-> <<>>]
    /\ tpc = [t \in Turns |-> "off"]
    /\ tloc = [t \in Turns |-> NoLocals]

\* the API has handled no request
NoRequest == [op |-> "none", n |-> 0]
NoApi ==
    /\ _conversation_cache = [k \in {} |-> <<>>]
    /\ _profile_cache = {}
    /\ api_request = NoRequest
    /\ api_response = NoRequest

\* nothing has been recorded through save_conversation_interaction
NoDocs == [u \in ConcUsers |-> [id \in {} |-> <<>>]]
NoMem ==
    /\ clock = 0
    /\ meta = NoDocs
    /\ interactions = [u \in ConcUsers |-> <<>>]

Init == InitTurn /\ NoStrip /\ NoConc /\ NoApi /\ NoMem

\* the first completion tier of a branch: tier 1 only if llm_agent is not None
FirstTier == IF llm_agent THEN "tier1" ELSE "tier2"

pipelineVars == <<products, comments, index_meta, retrieved, intent_products,
                  prio1, prio2, candidates, chosen_priority, summaries, template,
                  index_outcome, similarity_hits>>
cascadeVars == <<answer, calls, cascade_answer, log, result>>
envVars == <<llm_agent, langchain, BASE_URL, conversation_buffer>>
argVars == <<user_message, max_count, user_id>>
concVars == <<_user_memories, objects, store, tpc, tloc>>
apiVars == <<_conversation_cache, _profile_cache, api_request, api_response>>
memVars == <<clock, meta, interactions>>
otherVars == <<strip_runs, concVars, apiVars, memVars>>
turnVars == <<envVars, argVars, turn, pc, intent, pipelineVars, cascadeVars>>

\* recommend is entered; _is_greeting decides the greeting branch
Call(Msgs, Counts, Users) ==
    /\ pc = "idle"
    /\ \E m \in Msgs, n \in Counts, u \in Users :
          /\ user_message' = m
          /\ max_count' = n
          /\ user_id' = u
          /\ turn' = turn + 1
          /\ IF _is_greeting(m)
             THEN intent' = "greeting" /\ pc' = FirstTier
             ELSE intent' = "none" /\ pc' = "load"
    /\ UNCHANGED <<otherVars, envVars, pipelineVars, cascadeVars>>

\* load_data(), _is_product_intent, and for a product turn the tagging loop
LoadData(Cats) ==
    /\ pc = "load"
    /\ \E c \in Cats :
          /\ comments' = c.comments
          /\ index_meta' = c.index
          /\ IF _is_product_intent(user_message)
             THEN /\ intent' = "product"
                  /\ products' = TagProducts(c.products, c.comments)
                  /\ pc' = "retrieve"
             ELSE /\ intent' = "conversation"
                  /\ products' = c.products
                  /\ pc' = FirstTier
    /\ UNCHANGED <<otherVars, envVars, argVars, turn, retrieved, intent_products,
                   prio1, prio2, candidates, chosen_priority, summaries, template,
                   index_outcome, similarity_hits, cascadeVars>>

\* semantic retrieval (only with llm_agent and langchain), rule-based matching,
\* popularity fallback
Retrieve(Hits) ==
    /\ pc = "retrieve"
    /\ LET semTried == llm_agent /\ langchain
       IN \E b \in (IF semTried THEN Hits ELSE {NoQuery}) :
            LET run == RetrievalRun(products, comments, user_message, max_count,
                                    semTried, retrieve_user_memory(b))
            IN /\ retrieved' = run
               /\ intent_products' = LastResult(run)
               /\ index_outcome' = IndexOutcomeOf(b)
               /\ similarity_hits' = retrieve_user_memory(b).hits
    /\ pc' = "rank"
    /\ UNCHANGED <<otherVars, envVars, argVars, turn, intent, products, comments,
                   index_meta, prio1, prio2, candidates, chosen_priority, summaries,
                   template, cascadeVars>>

\* partition, sort by availability, select, summarise, choose the template
Rank ==
    /\ pc = "rank"
    /\ LET p1 == SortByScore(Prio1Of(intent_products))
           p2 == SortByScore(Prio2Of(intent_products))
           cands == CandidatesOf(p1, p2, max_count)
           prio == ChosenPriority(p1, p2)
           sums == SummariesOf(cands, index_meta)
       IN /\ prio1' = p1
          /\ prio2' = p2
          /\ candidates' = cands
          /\ chosen_priority' = prio
          /\ summaries' = sums
          /\ template' = TemplateOf(prio, sums)
    /\ pc' = FirstTier
    /\ UNCHANGED <<otherVars, envVars, argVars, turn, intent, products, comments,
                   index_meta, retrieved, intent_products, index_outcome,
                   similarity_hits, cascadeVars>>

(***************************************************************************)
(* The completion cascade.                                                 *)
(***************************************************************************)
\* what a tier leaves in answer: None when it raised, else its text
\* (tier 1 as returned, the direct and raw HTTP calls after .strip())
Tier1Yield(o) == IF o = RAISE THEN None ELSE o
StrippedYield(o, old) == IF o = RAISE THEN old ELSE Strip(o)

\* "if not answer:" before the direct call
AfterTier1Always(a) == "tier2"
AfterTier1(a) == IF Falsy(a) THEN "tier2" ELSE "finish"

\* after the direct call returned: the product branch has a second block
\* "if not answer and BASE_URL and API_KEY"
AfterDirect(br, a) ==
    IF br = "product" /\ Falsy(a) /\ BASE_URL THEN "http2" ELSE "finish"

\* the direct call raised: the conversation branch has no handler, the other
\* two try the raw HTTP request when the endpoint is known
AfterDirectRaised(br, a) ==
    IF br = "conversation" THEN "done"
    ELSE IF BASE_URL THEN "http1"
    ELSE "finish"

CallRecord(t, o, y) == [tier |-> t, raw |-> o, yield |-> y]

\* tier 1: llm_agent.chat_with_context (raises at once without langchain)
Tier1(Outs) ==
    /\ pc = "tier1"
    /\ \E o \in (IF langchain THEN Outs ELSE {RAISE}) :
          /\ answer' = Tier1Yield(o)
          /\ calls' = Append(calls, CallRecord("memory", o, Tier1Yield(o)))
          /\ pc' = AfterTier1(Tier1Yield(o))
    /\ UNCHANGED <<otherVars, envVars, argVars, turn, intent, pipelineVars, cascade_answer, log, result>>

\* tier 2: client.chat.completions.create
Tier2(Outs) ==
    /\ pc = "tier2"
    /\ \E o \in Outs :
          /\ answer' = StrippedYield(o, answer)
          /\ calls' = Append(calls, CallRecord("direct", o, IF o = RAISE THEN None ELSE Strip(o)))
          /\ pc' = IF o = RAISE THEN AfterDirectRaised(intent, answer)
                   ELSE AfterDirect(intent, Strip(o))
          /\ result' = IF o = RAISE /\ intent = "conversation" THEN "raised" ELSE result
    /\ UNCHANGED <<otherVars, envVars, argVars, turn, intent, pipelineVars, cascade_answer, log>>

\* the raw HTTP request inside the direct call's except block
HttpFallback1(Outs) ==
    /\ pc = "http1"
    /\ \E o \in Outs :
          /\ answer' = StrippedYield(o, answer)
          /\ calls' = Append(calls, CallRecord("http", o, IF o = RAISE THEN None ELSE Strip(o)))
          /\ pc' = AfterDirect(intent, StrippedYield(o, answer))
    /\ UNCHANGED <<otherVars, envVars, argVars, turn, intent, pipelineVars, cascade_answer, log, result>>

\* the product branch's second raw HTTP request
HttpFallback2(Outs) ==
    /\ pc = "http2"
    /\ \E o \in Outs :
          /\ answer' = StrippedYield(o, answer)
          /\ calls' = Append(calls, CallRecord("http", o, IF o = RAISE THEN None ELSE Strip(o)))
          /\ pc' = "finish"
    /\ UNCHANGED <<otherVars, envVars, argVars, turn, intent, pipelineVars, cascade_answer, log, result>>

(***************************************************************************)
(* Apology, log, post-processing, return.                                  *)
(***************************************************************************)
\* only the product branch substitutes the apology for a falsy answer
WithApology(br, a) == IF br = "product" /\ Falsy(a) THEN APOLOGY ELSE a

LogOf(br, a) ==
    IF br = "greeting"
    THEN [priority_used |-> 0, recommended_product_ids |-> <<>>,
          recommended_products |-> <<>>, intent |-> "greeting",
          user_message |-> user_message]
    ELSE IF br = "conversation"
    THEN [intent |-> "conversation", priority_used |-> PriorityNone,
          recommended_product_ids |-> <<>>, recommended_products |-> <<>>,
          user_message |-> user_message]
    ELSE [priority_used |-> chosen_priority,
          recommended_product_ids |-> [i \in 1..Len(summaries) |-> summaries[i].id],
          recommended_products |->
              [i \in 1..Len(summaries) |->
                  [id |-> summaries[i].id,
                   summary_source |-> summaries[i].summary_source]],
          user_message |-> user_message,
          llm_unavailable |-> (Falsy(a) \/ StartsWithApologyPrefix(a))]

\* the greeting is stripped when the memory context asks for it
PostProcess(br, a) ==
    IF llm_agent /\ user_id # "None"
    THEN LET mem == get_conversation_context(conversation_buffer,
                                             IF br = "product" THEN 2 ELSE 1)
             strip == IF br = "product" THEN mem # <<>> /\ "G" \in Range(mem)
                      ELSE mem # <<>>
         IN IF strip THEN _strip_redundant_greeting(a) ELSE a
    ELSE a

Finish ==
    /\ pc = "finish"
    /\ LET a == WithApology(intent, answer)
       IN /\ cascade_answer' = a
          /\ log' = LogOf(intent, a)
          /\ answer' = PostProcess(intent, a)
    /\ result' = "returned"
    /\ pc' = "done"
    /\ UNCHANGED <<otherVars, envVars, argVars, turn, intent, pipelineVars, calls>>

(***************************************************************************)
(* chat_one_turn: recommend, then the interaction is saved.                *)
(***************************************************************************)
max_buffer_size == 10

add_interactionKeepOldest(buf, rec) ==
    LET b == Append(buf, rec)
    IN IF Len(b) > max_buffer_size THEN SubSeq(b, 1, Len(b) - 1) ELSE b

\* ConversationMemory.add_interaction on the buffer: append, drop the oldest
\* entry beyond max_buffer_size
add_interaction(buf, rec) ==
    LET b == Append(buf, rec)
    IN IF Len(b) > max_buffer_size THEN Tail(b) ELSE b

ReturnedAfterSaveApology(a, o) == IF o = "store_failed" THEN APOLOGY ELSE a

\* what chat_one_turn returns as answer once the save is over, whatever
\* became of the save
ReturnedAfterSave(a, o) == a

\* save_conversation_interaction after recommend returned: the interaction
\* goes into the buffer, then into the user's index, where the write may fail
\* (the failure is printed and swallowed)
Save ==
    /\ pc = "done"
    /\ result = "returned"
    /\ user_id \in ConcUsers
    /\ \E o \in {"stored", "store_failed"} :
          LET rec == [user |-> user_message, bot |-> answer, turn |-> turn]
          IN /\ conversation_buffer' = add_interaction(conversation_buffer, rec)
             /\ store' = IF o = "stored"
                         THEN [store EXCEPT ![user_id] = Append(@, rec)]
                         ELSE store
             /\ answer' = ReturnedAfterSave(answer, o)
    /\ pc' = "saved"
    /\ UNCHANGED <<strip_runs, apiVars, memVars, _user_memories, objects, tpc, tloc, llm_agent,
                   langchain, BASE_URL, argVars, turn, intent, pipelineVars, calls,
                   cascade_answer, log, result>>

\* chat_one_turn has returned; the next call starts with fresh locals
NextTurn ==
    /\ pc = "saved"
    /\ turn < MaxTurns
    /\ pc' = "idle"
    /\ user_message' = <<>> /\ max_count' = 0 /\ user_id' = "None"
    /\ intent' = "none"
    /\ products' = <<>> /\ comments' = <<>> /\ index_meta' = {}
    /\ retrieved' = <<>> /\ intent_products' = <<>>
    /\ prio1' = <<>> /\ prio2' = <<>> /\ candidates' = <<>>
    /\ chosen_priority' = PriorityNone
    /\ summaries' = <<>> /\ template' = "none" /\ index_outcome' = "none"
    /\ similarity_hits' = <<>>
    /\ answer' = None /\ calls' = <<>> /\ cascade_answer' = None
    /\ log' = <<>> /\ result' = "none"
    /\ UNCHANGED <<otherVars, envVars, turn>>

(***************************************************************************)
(* Concurrent turns.  Each turn is a thread running chat_one_turn; the     *)
(* threads share llm_agent._user_memories.  A step is one statement of     *)
(* get_user_memory, get_recent_context or add_interaction.                 *)
(***************************************************************************)
\* the buffer of the memory object a turn holds
BufferOf(o) == objects[o].buffer

\* chat_one_turn is called for a user; recommend will read the context
Enter(t) ==
    /\ tpc[t] = "off"
    /\ \E u \in ConcUsers :
          tloc' = [tloc EXCEPT ![t] = [user |-> u, phase |-> "read", mem |-> 0,
                                       seen |-> {}]]
    /\ tpc' = [tpc EXCEPT ![t] = "check"]
    /\ UNCHANGED <<_user_memories, objects, store, strip_runs, apiVars, memVars, turnVars>>

\* get_user_memory: "if user_id not in _user_memories"
GetUserMemoryCheck(t) ==
    /\ tpc[t] = "check"
    /\ tpc' = [tpc EXCEPT ![t] = IF _user_memories[tloc[t].user] = 0
                                  THEN "create" ELSE "lookup"]
    /\ UNCHANGED <<_user_memories, objects, store, tloc, strip_runs, apiVars, memVars, turnVars>>

\* get_user_memory: "_user_memories[user_id] = ConversationMemory(user_id)";
\* the new object's buffer is what _load_existing_memories gets from the
\* user's index: the persisted snippets, or nothing when the index is
\* unavailable
GetUserMemoryCreate(t) ==
    /\ tpc[t] = "create"
    /\ \E loaded \in {<<>>, store[tloc[t].user]} :
          objects' = Append(objects, [user |-> tloc[t].user, buffer |-> loaded])
    /\ _user_memories' = [_user_memories EXCEPT ![tloc[t].user] = Len(objects) + 1]
    /\ tpc' = [tpc EXCEPT ![t] = "lookup"]
    /\ UNCHANGED <<store, tloc, strip_runs, apiVars, memVars, turnVars>>

\* get_user_memory: "return _user_memories[user_id]"
GetUserMemoryReturn(t) ==
    /\ tpc[t] = "lookup"
    /\ tloc' = [tloc EXCEPT ![t].mem = _user_memories[tloc[t].user]]
    /\ tpc' = [tpc EXCEPT ![t] = IF tloc[t].phase = "read" THEN "context" ELSE "append"]
    /\ UNCHANGED <<_user_memories, objects, store, strip_runs, apiVars, memVars, turnVars>>

\* get_recent_context on the object the turn got: the turns whose
\* interactions the context shows
ReadContext(t) ==
    /\ tpc[t] = "context"
    /\ tloc' = [tloc EXCEPT ![t].seen =
                    {BufferOf(tloc[t].mem)[i].turn : i \in 1..Len(BufferOf(tloc[t].mem))}]
    /\ tpc' = [tpc EXCEPT ![t] = "answer"]
    /\ UNCHANGED <<_user_memories, objects, store, strip_runs, apiVars, memVars, turnVars>>

\* recommend returns its answer; chat_one_turn goes on to save the interaction
RecommendReturns(t) ==
    /\ tpc[t] = "answer"
    /\ tloc' = [tloc EXCEPT ![t].phase = "save"]
    /\ tpc' = [tpc EXCEPT ![t] = "check"]
    /\ UNCHANGED <<_user_memories, objects, store, strip_runs, apiVars, memVars, turnVars>>

\* add_interaction on the object the turn got; the write to the index may fail
AddInteraction(t) ==
    /\ tpc[t] = "append"
    /\ LET rec == [user |-> <<"chetori">>, bot |-> <<"w">>, turn |-> t]
           o == tloc[t].mem
       IN /\ objects' = [objects EXCEPT ![o].buffer = add_interaction(@, rec)]
          /\ \E ok \in BOOLEAN :
                store' = IF ok THEN [store EXCEPT ![tloc[t].user] = Append(@, rec)]
                         ELSE store
    /\ tpc' = [tpc EXCEPT ![t] = "end"]
    /\ UNCHANGED <<_user_memories, tloc, strip_runs, apiVars, memVars, turnVars>>

(***************************************************************************)
(* save_conversation_interaction with the persisted index in view: the     *)
(* user's meta.json maps a document id to a document, and the id of a      *)
(* conversation snippet is "conversation_" and int(time.time()).  A        *)
(* document is the interaction its text was formatted from.  The chat-fact *)
(* documents extract_and_store_chat_facts may add have ids of their own    *)
(* ("chatfact_...") and are left out.                                      *)
(***************************************************************************)
RECURSIVE DocsById(_, _)
\* the documents of a meta.json, by ascending id
DocsById(m, ids) ==
    IF ids = {} THEN <<>>
    ELSE LET lo == CHOOSE x \in ids : \A y \in ids : x <= y
         IN <<m[lo]>> \o DocsById(m, ids \ {lo})

\* _load_existing_memories on one hit: the text is split at the first line
\* break, the labels are removed and both parts stripped
ParseSnippet(doc) ==
    [user |-> Strip(doc.user),
     bot |-> IF doc.bot = None THEN <<"w">> ELSE Strip(doc.bot),
     turn |-> doc.turn]

\* _load_existing_memories: the snippets found, the last max_buffer_size of them
_load_existing_memories(hits) ==
    LET loaded == [i \in 1..Len(hits) |-> ParseSnippet(hits[i])]
    IN IF Len(loaded) > max_buffer_size
       THEN SubSeq(loaded, Len(loaded) - max_buffer_size + 1, Len(loaded))
       ELSE loaded

\* upsert_user_docs with one document: meta[d["id"]] = ...; nothing is
\* written when it raises
Upsert(m, id, doc, ok) ==
    IF ok THEN [k \in DOMAIN m \cup {id} |-> IF k = id THEN doc ELSE m[k]] ELSE m

\* the interactions added in this process (those loaded have turn <= 0)
Added(u) == Cardinality({i \in 1..Len(interactions[u]) : interactions[u][i].turn > 0})

\* save_conversation_interaction(user_id, user_input, bot_response):
\* get_user_memory (which constructs the memory at the first call and loads
\* the snippets of the index, or nothing when the search fails), then
\* add_interaction: the buffer, the snippet under the id of the current
\* second, and _extract_and_store_facts, which stores the snippet again under
\* the id of the second it has become, and once more if that write raised
save_conversation_interaction(Users, Msgs, Answers, Delays, Writes, limit) ==
    \E u \in Users, m \in Msgs, a \in Answers, searched \in BOOLEAN,
       d1 \in Delays, d2 \in Delays, d3 \in Delays,
       w1 \in Writes, w2 \in Writes, w3 \in Writes :
        LET isNew == _user_memories[u] = 0
            hits == IF searched THEN DocsById(meta[u], DOMAIN meta[u]) ELSE <<>>
            obj == IF isNew THEN Len(objects) + 1 ELSE _user_memories[u]
            buf0 == IF isNew THEN _load_existing_memories(hits) ELSE objects[obj].buffer
            rec == [user |-> m, bot |-> a, turn |-> Added(u) + 1]
            buf1 == add_interaction(buf0, rec)
            t1 == clock + d1
            t2 == t1 + d2
            t3 == t2 + d3
            m1 == Upsert(meta[u], t1, rec, w1)
            m2 == Upsert(m1, t2, rec, w2)
            m3 == IF w2 THEN m2 ELSE Upsert(m2, t3, rec, w3)
        IN /\ Added(u) < limit
           /\ objects' = IF isNew THEN Append(objects, [user |-> u, buffer |-> buf1])
                         ELSE [objects EXCEPT ![obj].buffer = buf1]
           /\ _user_memories' = [_user_memories EXCEPT ![u] = obj]
           /\ clock' = IF w2 THEN t2 ELSE t3
           /\ meta' = [meta EXCEPT ![u] = m3]
           /\ store' = IF w1 \/ w2 \/ w3 THEN [store EXCEPT ![u] = Append(@, rec)]
                       ELSE store
           /\ interactions' =
                 [interactions EXCEPT ![u] = Append(IF isNew THEN buf0 ELSE @, rec)]
           /\ UNCHANGED <<turnVars, strip_runs, apiVars, tpc, tloc>>

(***************************************************************************)
(* The HTTP API (api.py).  Each handler is a coroutine that never suspends *)
(* between its first and its last access to _conversation_cache, so a      *)
(* handler is one step.  Ids are strings, modelled as sequences of         *)
(* characters; a message of a history is its role and content (the         *)
(* timestamp is left out).                                                 *)
(***************************************************************************)
DEFAULT == <<"default">>

\* the text of the error response of chat_with_user
ERROR_RESPONSE == <<"w", "sp", "w">>

\* Python's "a or b"
Or(a, b) == IF Falsy(a) THEN b ELSE a

\* f"{user_id}:{cid}" with cid = chat_id or chat_room_id or "default"
get_conversation_key(uid, chat_id, chat_room_id) ==
    uid \o <<":">> \o Or(chat_id, Or(chat_room_id, DEFAULT))

\* the list _conversation_cache holds under the key (a new empty one if none)
ConversationOf(cache, key) == IF key \in DOMAIN cache THEN cache[key] ELSE <<>>

WithConversation(cache, key, conv) ==
    [k \in DOMAIN cache \cup {key} |-> IF k = key THEN conv ELSE cache[k]]

\* get_or_create_conversation: the cache afterwards
get_or_create_conversation(cache, key) ==
    WithConversation(cache, key, ConversationOf(cache, key))

\* conversation[-limit:] if limit > 0 else conversation
recent_messages(conv, limit) ==
    IF limit > 0 THEN SubSeq(conv, Max(1, Len(conv) - limit + 1), Len(conv)) ELSE conv

\* ChatResponse(response=answer, ...) validates: response must be a string
ResponseValid(o) == o # None

ConversationAfterTurnNoAnswer(conv, message, o) ==
    Append(conv, [role |-> "user", content |-> message])

\* what chat_with_user leaves in the conversation: the user's message, and
\* the answer when chat_one_turn returned one
ConversationAfterTurn(conv, message, o) ==
    LET c1 == Append(conv, [role |-> "user", content |-> message])
    IN IF o = RAISE THEN c1 ELSE Append(c1, [role |-> "assistant", content |-> o])

\* POST /api/v1/chat
chat_with_user(Users, ChatIds, Rooms, Msgs, Outs) ==
    /\ api_request.n < MaxRequests
    /\ \E u \in Users, c \in ChatIds, r \in Rooms, m \in Msgs, o \in Outs :
          LET chat_id == Or(c, Or(r, DEFAULT))
              chat_room_id == Or(r, Or(chat_id, DEFAULT))
              message == Strip(m)
              key == get_conversation_key(u, chat_id, chat_room_id)
              conv == ConversationOf(_conversation_cache, key)
          IN /\ api_request' = [op |-> "chat", n |-> api_request.n + 1, user_id |-> u,
                                chat_id |-> c, chat_room_id |-> r, message |-> m]
             /\ IF message = <<>>
                THEN /\ api_response' = [op |-> "chat", status |-> 400]
                     /\ UNCHANGED <<_conversation_cache, _profile_cache>>
                ELSE /\ _profile_cache' = _profile_cache \cup {u}
                     /\ _conversation_cache' =
                           WithConversation(_conversation_cache, key,
                                            ConversationAfterTurn(conv, message, o))
                     /\ api_response' =
                           [op |-> "chat", status |-> 200, user_id |-> u,
                            chat_id |-> chat_id, chat_room_id |-> chat_room_id,
                            success |-> (o # RAISE /\ ResponseValid(o)),
                            response |-> IF o # RAISE /\ ResponseValid(o) THEN o
                                         ELSE ERROR_RESPONSE]
    /\ UNCHANGED <<turnVars, strip_runs, concVars, memVars>>

\* GET /api/v1/conversation/{user_id}
get_conversation_history(Users, ChatIds, Rooms, Limits) ==
    /\ api_request.n < MaxRequests
    /\ \E u \in Users, c \in ChatIds, r \in Rooms, limit \in Limits :
          LET key == get_conversation_key(u, c, r)
              conversation == ConversationOf(_conversation_cache, key)
          IN /\ api_request' = [op |-> "history", n |-> api_request.n + 1, user_id |-> u,
                                chat_id |-> c, chat_room_id |-> r, limit |-> limit]
             /\ _conversation_cache' = get_or_create_conversation(_conversation_cache, key)
             /\ api_response' =
                   [op |-> "history", status |-> 200, user_id |-> u,
                    chat_id |-> Or(c, Or(r, DEFAULT)), chat_room_id |-> r,
                    messages |-> recent_messages(conversation, limit),
                    total_count |-> Len(conversation)]
    /\ UNCHANGED <<turnVars, strip_runs, concVars, memVars, _profile_cache>>

\* DELETE /api/v1/conversation/{user_id}
clear_conversation_history(Users, ChatIds, Rooms) ==
    /\ api_request.n < MaxRequests
    /\ \E u \in Users, c \in ChatIds, r \in Rooms :
          LET key == get_conversation_key(u, c, r)
          IN /\ api_request' = [op |-> "clear", n |-> api_request.n + 1, user_id |-> u,
                                chat_id |-> c, chat_room_id |-> r]
             /\ _conversation_cache' =
                   [k \in DOMAIN _conversation_cache \ {key} |-> _conversation_cache[k]]
             /\ api_response' =
                   [op |-> "clear", status |-> 200, user_id |-> u,
                    chat_id |-> Or(c, Or(r, DEFAULT)), chat_room_id |-> r]
    /\ UNCHANGED <<turnVars, strip_runs, concVars, memVars, _profile_cache>>

(***************************************************************************)
(* Specifications.                                                         *)
(***************************************************************************)
Counts == 0..MaxCount

\* the cascade under every text the service may return, over small catalogs
CascadeCatalogs == CatalogsOver({"absent"}, {{"krem", "abresan"}}, 1, {})

\* for the cascade the index either fails to load or returns the product
CascadeHits == {[index |-> "load_raises", hits |-> <<>>], [index |-> "ok", hits |-> <<1>>]}

Next ==
    \/ Call(Messages, Counts, UserIds)
    \/ LoadData(CascadeCatalogs)
    \/ Retrieve(CascadeHits)
    \/ Rank
    \/ Tier1(Outcomes(Texts))
    \/ Tier2(Outcomes(Texts))
    \/ HttpFallback1(Outcomes(Texts))
    \/ HttpFallback2(Outcomes(Texts))
    \/ Finish

Spec == Init /\ [][Next]_vars

\* retrieval and ranking over every catalog and product messages; the
\* memory-augmented call answers when langchain is there, the direct call
\* answers or raises, the first raw request fails and the second answers
RankStocks == {"absent", "n0", "n3"}
RankTerms == {{"krem", "abresan"}, {"krem", "abresan", "badan"}}
RankCatalogs == CatalogsOver(RankStocks, RankTerms, MaxProducts, {})
RankMessages == {<<"pishnahad">>, <<"krem">>, <<"moisturizer">>}
RankTexts == {<<"w">>}

InitRank == Init /\ conversation_buffer = <<>> /\ BASE_URL

NextRank ==
    \/ Call(RankMessages, Counts, {"u1"})
    \/ LoadData(RankCatalogs)
    \/ Retrieve(HitOutcomes)
    \/ Rank
    \/ Tier1(RankTexts)
    \/ Tier2(Outcomes(RankTexts))
    \/ HttpFallback1({RAISE})
    \/ HttpFallback2(RankTexts)
    \/ Finish

SpecRank == InitRank /\ [][NextRank]_vars

\* classification over every message of words, capitals, whitespace and
\* punctuation; one catalog, and completions that answer or raise
MaxRawLen == 3
RawPieces == {"salam", "SALAM", "chetori", "krem", "sp", "sep", "paren"}
RawMessages == SeqsUpTo(RawPieces, MaxRawLen)
IntentTexts == {<<"w">>}

InitIntent == Init /\ conversation_buffer = <<>> /\ BASE_URL /\ langchain

NextIntent ==
    \/ Call(RawMessages, {1}, {"u1"})
    \/ LoadData(CascadeCatalogs)
    \/ Retrieve(CascadeHits)
    \/ Rank
    \/ Tier1(Outcomes(IntentTexts))
    \/ Tier2(Outcomes(IntentTexts))
    \/ HttpFallback1(Outcomes(IntentTexts))
    \/ HttpFallback2(IntentTexts)
    \/ Finish

SpecIntent == InitIntent /\ [][NextIntent]_vars

\* chat_one_turn, turn after turn, for one user: the interaction is saved
\* after recommend returned
ChatMessages == {<<"salam">>, <<"chetori">>, <<"krem">>}
ChatTexts == {<<"G", "sp", "w">>, <<"w">>}

InitChat == Init /\ conversation_buffer = <<>> /\ BASE_URL /\ langchain

NextChat ==
    \/ Call(ChatMessages, {1}, {"u1"})
    \/ LoadData(CascadeCatalogs)
    \/ Retrieve(CascadeHits)
    \/ Rank
    \/ Tier1(Outcomes(ChatTexts))
    \/ Tier2(Outcomes(ChatTexts))
    \/ HttpFallback1({RAISE})
    \/ HttpFallback2(Outcomes(ChatTexts))
    \/ Finish
    \/ Save
    \/ NextTurn

SpecChat == InitChat /\ [][NextChat]_vars

\* concurrent turns of one or two users
InitConc ==
    /\ InitTurn /\ llm_agent /\ langchain /\ BASE_URL /\ conversation_buffer = <<>>
    /\ NoStrip
    /\ NoConc
    /\ NoApi
    /\ NoMem

NextConc ==
    \E t \in Turns :
        \/ Enter(t)
        \/ GetUserMemoryCheck(t)
        \/ GetUserMemoryCreate(t)
        \/ GetUserMemoryReturn(t)
        \/ ReadContext(t)
        \/ RecommendReturns(t)
        \/ AddInteraction(t)

SpecConc == InitConc /\ [][NextConc]_vars

\* post-processing: completions that begin with a greeting, in each branch,
\* against a memory that is empty, has a greeting in it, or has none
PostMessages == {<<"salam">>, <<"chetori">>, <<"krem">>}
PostTexts == {<<"G", "sp", "w">>, <<"w">>}

NextPost ==
    \/ Call(PostMessages, {1}, UserIds)
    \/ LoadData(CascadeCatalogs)
    \/ Retrieve(CascadeHits)
    \/ Rank
    \/ Tier1(Outcomes(PostTexts))
    \/ Tier2(Outcomes(PostTexts))
    \/ HttpFallback1(Outcomes(PostTexts))
    \/ HttpFallback2(Outcomes(PostTexts))
    \/ Finish

SpecPost == Init /\ [][NextPost]_vars

\* requests for a moisturizer over catalogs of products the moisturizer rule
\* accepts or rejects, with and without comments; the index fails, finds
\* nothing or finds the first product
MoistMessages == {<<"abresan">>, <<"moisturizer">>, <<"krem">>,
                  <<"pishnahad", "sp", "abresan">>}
MoistStocks == {"absent", "n0"}
MoistCatalogs == CatalogsOver(MoistStocks, RankTerms, MaxProducts, {})
MoistHits == CascadeHits \cup {[index |-> "ok", hits |-> <<>>]}

InitMoist == Init /\ conversation_buffer = <<>> /\ BASE_URL

NextMoist ==
    \/ Call(MoistMessages, Counts, {"u1"})
    \/ LoadData(MoistCatalogs)
    \/ Retrieve(MoistHits)
    \/ Rank
    \/ Tier1(RankTexts)
    \/ Tier2(Outcomes(RankTexts))
    \/ HttpFallback1({RAISE})
    \/ HttpFallback2(RankTexts)
    \/ Finish

SpecMoist == InitMoist /\ [][NextMoist]_vars


\* the API over a few users and chats; chat_one_turn answers with a text,
\* answers None (a greeting or conversation turn all of whose tiers failed) or
\* raises
ApiUsers == {<<"a">>, <<"a", ":", "b">>}
ApiChatIds == {None, <<"c">>, <<"b", ":", "c">>}
ApiRooms == {DEFAULT, <<"c">>}
ApiMessages == {<<"w">>, <<"sp">>}
ApiAnswers == {<<"w">>, None, RAISE}
ApiLimits == {0, 1, 50}

InitApi ==
    /\ InitTurn /\ llm_agent /\ langchain /\ BASE_URL /\ conversation_buffer = <<>>
    /\ NoStrip
    /\ NoConc
    /\ NoApi
    /\ NoMem

NextApi ==
    \/ chat_with_user(ApiUsers, ApiChatIds, ApiRooms, ApiMessages, ApiAnswers)
    \/ get_conversation_history(ApiUsers, ApiChatIds, ApiRooms, ApiLimits)
    \/ clear_conversation_history(ApiUsers, ApiChatIds, ApiRooms)

SpecApi == InitApi /\ [][NextApi]_vars

\* summaries over catalogs whose products have an index document or none,
\* comments or none, with max_count large enough to select them all
SummaryCatalogs == CatalogsOver({"absent"}, {{"krem", "abresan"}}, MaxProducts, 1..MaxProducts)
SummaryCounts == {1, MaxProducts}

NextSummary ==
    \/ Call({<<"krem">>}, SummaryCounts, {"u1"})
    \/ LoadData(SummaryCatalogs)
    \/ Retrieve(CascadeHits)
    \/ Rank
    \/ Tier1(RankTexts)
    \/ Tier2(Outcomes(RankTexts))
    \/ HttpFallback1({RAISE})
    \/ HttpFallback2(RankTexts)
    \/ Finish

SpecSummary == InitRank /\ [][NextSummary]_vars

\* the rule-based matcher over products with every mix of hydration, form,
\* negative and body terms in their text
MatchTerms ==
    (SUBSET {"krem", "abresan", "badan"}) \cup {{"krem", "abresan", "mask"}, {"moisturizer"}}
MatchCatalogs == CatalogsOver({"absent"}, MatchTerms, MaxProducts, {})
MatchMessages == {<<"moisturizer">>, <<"krem", "sp", "abresan">>, <<"krem">>}

NextMatch ==
    \/ Call(MatchMessages, {MaxProducts}, {"u1"})
    \/ LoadData(MatchCatalogs)
    \/ Retrieve(CascadeHits)
    \/ Rank
    \/ Tier1(RankTexts)
    \/ Tier2(Outcomes(RankTexts))
    \/ HttpFallback1({RAISE})
    \/ HttpFallback2(RankTexts)
    \/ Finish

SpecMatch == InitRank /\ [][NextMatch]_vars

\* interactions saved one after the other for one user, more than the
\* buffer holds, on top of the snippets of earlier sessions; a second passes
\* between two readings of the clock and every write succeeds
PriorDocs(k) ==
    [id \in (0 - k)..(0 - 1) |-> [user |-> <<"chetori">>, bot |-> <<"w">>, turn |-> id]]
PriorMetas ==
    {[u \in ConcUsers |-> IF u = "u1" THEN PriorDocs(k) ELSE PriorDocs(0)] :
        k \in {0, 1, max_buffer_size + 1}}
MemMessages == {<<"salam">>, <<"chetori">>}

InitMemory ==
    /\ InitTurn /\ llm_agent /\ langchain /\ BASE_URL /\ conversation_buffer = <<>>
    /\ NoStrip
    /\ NoConc
    /\ NoApi
    /\ clock = 0
    /\ meta \in PriorMetas
    /\ interactions = [u \in ConcUsers |-> <<>>]

NextBuffer ==
    save_conversation_interaction({"u1"}, MemMessages, {<<"w">>}, {1}, {TRUE},
                                  MaxInteractions)

SpecBuffer == InitMemory /\ [][NextBuffer]_vars

\* a few interactions saved at any pace: two readings of the clock may fall
\* into the same second, and a write may fail
NextPersist ==
    save_conversation_interaction({"u1"}, MemMessages, {<<"w">>}, {0, 1}, BOOLEAN,
                                  MaxRecordings)

SpecPersist == InitMemory /\ [][NextPersist]_vars

\* the greeting stripper on its own: a text, then the stripper applied to it
\* and applied again to the result
StripTexts == SeqsUpTo({"sp", "pu", "G", "w"}, MaxStripLen)

InitStrip ==
    /\ InitTurn /\ ~llm_agent /\ ~langchain /\ ~BASE_URL /\ conversation_buffer = <<>>
    /\ strip_runs \in {<<x>> : x \in StripTexts}
    /\ NoConc
    /\ NoApi
    /\ NoMem

ApplyStrip ==
    /\ Len(strip_runs) \in {1, 2}
    /\ strip_runs' = Append(strip_runs,
                            _strip_redundant_greeting(strip_runs[Len(strip_runs)]))
    /\ UNCHANGED <<turnVars, concVars, apiVars, memVars>>

NextStrip == ApplyStrip

SpecStrip == InitStrip /\ [][NextStrip]_vars


(***************************************************************************)
(* Properties.                                                             *)
(***************************************************************************)
Done == pc = "done"
Returned == pc = "done" /\ result = "returned"
Tiers(t) == {i \in 1..Len(calls) : calls[i].tier = t}
TierOrder(t) == IF t = "memory" THEN 1 ELSE IF t = "direct" THEN 2 ELSE 3
LogHas(k) == k \in DOMAIN log

\* no invoked tier left a non-empty answer
AllTiersFailed == calls # <<>> /\ \A i \in 1..Len(calls) : Falsy(calls[i].yield)

\* every call but the last failed, and the last, a raw HTTP request, returned
\* a non-empty text
Tier3Succeeded ==
    /\ Len(calls) >= 2
    /\ \A i \in 1..(Len(calls) - 1) : Falsy(calls[i].yield)
    /\ calls[Len(calls)].tier = "http"
    /\ calls[Len(calls)].raw # RAISE
    /\ calls[Len(calls)].raw # <<>>

\* C1: recommend never raises to its caller because of a completion-service
\* failure, whatever the branch and whatever the tiers do.
C1_NeverRaises == result # "raised"

\* C2: when every completion tier failed or returned an empty result,
\* recommend returns the fixed apology and a log with llm_unavailable = true,
\* in the greeting, conversation and product branches alike.
C2_AllFailedGivesApology ==
    (Done /\ AllTiersFailed) =>
        /\ result = "returned"
        /\ answer = APOLOGY
        /\ LogHas("llm_unavailable")
        /\ log.llm_unavailable

\* C3: when tiers 1 and 2 failed and the raw HTTP tier returned a non-empty
\* text T, the cascade's answer is T and the log has llm_unavailable = false.
C3_Tier3TextIsAnswer ==
    (Returned /\ Tier3Succeeded) =>
        /\ cascade_answer = calls[Len(calls)].raw
        /\ LogHas("llm_unavailable")
        /\ ~log.llm_unavailable

\* C4: the tiers are invoked in the order memory-augmented, direct, raw HTTP;
\* a tier is invoked only after every earlier invoked tier raised or left an
\* empty answer, the raw HTTP tier only after the direct call, the direct call
\* only after the memory-augmented call when that one is configured; after a
\* tier left a non-empty answer no tier is invoked.
C4_TiersInOrderFirstSuccessWins ==
    \A i \in 1..Len(calls) :
        /\ \A j \in 1..(i - 1) :
              /\ Falsy(calls[j].yield)
              /\ TierOrder(calls[j].tier) <= TierOrder(calls[i].tier)
        /\ calls[i].tier = "http" => \E j \in 1..(i - 1) : calls[j].tier = "direct"
        /\ (calls[i].tier = "direct" /\ llm_agent) =>
              \E j \in 1..(i - 1) : calls[j].tier = "memory"

\* a turn in which the first two tiers failed and the third answered
C4_Witness ==
    /\ Returned
    /\ Len(calls) = 3
    /\ calls[1].tier = "memory" /\ calls[2].tier = "direct" /\ calls[3].tier = "http"
    /\ ~Falsy(calls[3].yield)

\* C5: each completion tier is invoked at most once in a turn.
C5_EachTierAtMostOnce ==
    \A t \in {"memory", "direct", "http"} : Cardinality(Tiers(t)) <= 1


\* --- retrieval and ranking, checked under SpecRank ---
ProductTurnDone == Returned /\ intent = "product"
Ranked == intent = "product" /\ pc \notin {"idle", "load", "retrieve", "rank"}
Retrieved == intent = "product" /\ pc \notin {"idle", "load", "retrieve"}

\* the product has a comment in the comments data
HasCommentsData(id) == id \in DOMAIN comments /\ comments[id] > 0
PosIn(s, id) == CHOOSE i \in 1..Len(s) : s[i].id = id
SomeRetrievedHasComments ==
    \E i \in 1..Len(intent_products) : HasCommentsData(intent_products[i].id)
SomeRetrievedLacksComments ==
    \E i \in 1..Len(intent_products) : ~HasCommentsData(intent_products[i].id)

\* C6: in the log of a product turn, priority_used = 1 implies every
\* recommended product has comments, priority_used = 2 implies none has,
\* priority_used = 3 implies nothing is recommended.
C6_PriorityMatchesComments ==
    ProductTurnDone =>
        LET rp == log.recommended_products
        IN /\ log.priority_used = 1 => \A i \in 1..Len(rp) : HasCommentsData(rp[i].id)
           /\ log.priority_used = 2 => \A i \in 1..Len(rp) : ~HasCommentsData(rp[i].id)
           /\ log.priority_used = 3 =>
                 (rp = <<>> /\ log.recommended_product_ids = <<>>)

\* a product turn that recommends comment-less products under priority 2
C6_Witness ==
    /\ ProductTurnDone
    /\ log.priority_used = 2
    /\ Len(log.recommended_products) >= 1

\* C7 as stated: for every max_count, priority_used is 1, 2 or 3 and under
\* priority 1 or 2 the recommended list is non-empty and at most max_count long.
C7_ForEveryMaxCount ==
    ProductTurnDone =>
        /\ log.priority_used \in {1, 2, 3}
        /\ log.priority_used \in {1, 2} =>
              /\ log.recommended_products # <<>>
              /\ Len(log.recommended_products) <= max_count

\* C7 amended: the same for every max_count >= 1.
C7_ForPositiveMaxCount ==
    (ProductTurnDone /\ max_count >= 1) =>
        /\ log.priority_used \in {1, 2, 3}
        /\ log.priority_used \in {1, 2} =>
              /\ log.recommended_products # <<>>
              /\ Len(log.recommended_products) <= max_count

\* a product turn whose bucket is longer than max_count >= 1
C7_Witness ==
    /\ ProductTurnDone
    /\ max_count >= 1
    /\ Len(prio1) > max_count
    /\ Len(log.recommended_products) = max_count

\* C8: when some retrieved candidate has comments, priority_used is not 2 and
\* no comment-less product is recommended.
C8_BucketAFirst ==
    (ProductTurnDone /\ SomeRetrievedHasComments) =>
        /\ log.priority_used # 2
        /\ \A i \in 1..Len(log.recommended_products) :
              HasCommentsData(log.recommended_products[i].id)

\* retrieved candidates of both kinds, and a recommendation made
C8_Witness ==
    /\ ProductTurnDone
    /\ SomeRetrievedHasComments
    /\ SomeRetrievedLacksComments
    /\ Len(log.recommended_products) >= 1

\* b holds exactly the retrieved candidates with _has_comments = hasC, by
\* descending availability score, equal scores in retrieval order
IsStableDescendingBucket(b, hasC) ==
    /\ Len(b) = Cardinality({i \in 1..Len(intent_products) :
                                intent_products[i]._has_comments = hasC})
    /\ \A i \in 1..Len(b) : b[i] \in Range(intent_products) /\ b[i]._has_comments = hasC
    /\ \A i, j \in 1..Len(b) :
          i < j =>
            /\ b[i].id # b[j].id
            /\ _score(b[i]) >= _score(b[j])
            /\ _score(b[i]) = _score(b[j]) =>
                  PosIn(intent_products, b[i].id) < PosIn(intent_products, b[j].id)

\* C9: each bucket is the stable descending sort of its retrieved candidates
\* by availability score (True 2, None 1, False 0), and the recommended list
\* is the first max_count entries of the chosen bucket.
C9_StableDescendingSort ==
    Ranked =>
        /\ \A i \in 1..Len(intent_products) :
              _score(intent_products[i]) =
                  (IF _is_available(intent_products[i]) = "True" THEN 2
                   ELSE IF _is_available(intent_products[i]) = "None" THEN 1 ELSE 0)
        /\ IsStableDescendingBucket(prio1, TRUE)
        /\ IsStableDescendingBucket(prio2, FALSE)
        /\ LET chosen == IF prio1 # <<>> THEN prio1 ELSE prio2
           IN /\ candidates = SubSeq(chosen, 1, Min(max_count, Len(chosen)))
              /\ Returned =>
                    log.recommended_product_ids =
                        [i \in 1..Len(candidates) |-> candidates[i].id]

\* a bucket of two candidates with equal scores, and one whose order the sort
\* changed
C9_Witness ==
    /\ ProductTurnDone
    /\ Len(prio1) = 2
    /\ _score(prio1[1]) = _score(prio1[2])
    /\ Len(candidates) = 1

StrategyOrder(st) == IF st = "semantic" THEN 1 ELSE IF st = "rule" THEN 2 ELSE 3

\* C10: the strategies run in the order semantic, rule-based, popularity; a
\* strategy runs only when every earlier one yielded nothing (popularity only
\* after rule-based ran), and the candidates are the result of the first
\* strategy that yielded any: no later strategy replaces or extends it.
C10_FirstNonEmptyStrategyWins ==
    Retrieved =>
        /\ retrieved # <<>>
        /\ \A i \in 1..Len(retrieved) :
              /\ \A j \in 1..(i - 1) :
                    /\ retrieved[j].result = <<>>
                    /\ StrategyOrder(retrieved[j].strategy) < StrategyOrder(retrieved[i].strategy)
              /\ retrieved[i].strategy = "popularity" =>
                    \E j \in 1..(i - 1) : retrieved[j].strategy = "rule"
              /\ (retrieved[i].strategy = "semantic") => (llm_agent /\ langchain)
        /\ \A i \in 1..Len(retrieved) :
              retrieved[i].result # <<>> => intent_products = retrieved[i].result
        /\ (\A i \in 1..Len(retrieved) : retrieved[i].result = <<>>) =>
              (intent_products = <<>> /\ retrieved[Len(retrieved)].strategy = "popularity")

\* the semantic strategy yielded candidates although the rule-based matcher
\* would have yielded others
C10_Witness ==
    /\ Retrieved
    /\ Len(retrieved) = 1
    /\ retrieved[1].strategy = "semantic"
    /\ retrieved[1].result # <<>>
    /\ RuleProducts(products, user_message) # retrieved[1].result
    /\ RuleProducts(products, user_message) # <<>>

IndexFailed == index_outcome \in {"missing", "load_raises", "search_raises", "no_hits"}

\* C11: when the similarity index is missing, returns no hits or raises, the
\* semantic strategy yields an empty result, rule-based matching runs next
\* and its matches become the candidates, and recommend does not raise.
C11_IndexFailureFallsThrough ==
    (Retrieved /\ IndexFailed) =>
        /\ Len(retrieved) >= 2
        /\ retrieved[1] = [strategy |-> "semantic", result |-> <<>>]
        /\ retrieved[2].strategy = "rule"
        /\ retrieved[2].result = RuleProducts(products, user_message)
        /\ retrieved[2].result # <<>> => intent_products = retrieved[2].result
        /\ result # "raised"
        /\ Done => result = "returned"

\* loading the index raised, and the turn returned rule-based candidates
C11_Witness ==
    /\ Returned
    /\ index_outcome = "load_raises"
    /\ Len(retrieved) = 2
    /\ intent_products # <<>>

\* --- classification, checked under SpecIntent ---
Classified == pc \notin {"idle", "load"}

\* the normal form of a message: lowercased, split at whitespace and at
\* punctuation of any kind
IsSpaceOrPunctuation(a) == a \in {"sp", "sep", "paren"}
RECURSIVE NormalTokens(_, _, _)
NormalTokens(text, cur, acc) ==
    IF text = <<>> THEN (IF cur = <<>> THEN acc ELSE Append(acc, cur))
    ELSE IF IsSpaceOrPunctuation(Head(text))
         THEN NormalTokens(Tail(text), <<>>, IF cur = <<>> THEN acc ELSE Append(acc, cur))
         ELSE NormalTokens(Tail(text), Append(cur, Lower(Head(text))), acc)

GreetingNormalForm(text) ==
    LET tokens == NormalTokens(text, <<>>, <<>>)
    IN /\ Len(tokens) \in {1, 2}
       /\ \A i \in 1..Len(tokens) : tokens[i] = <<"salam">>

\* C12: a message whose normal form (lowercased, whitespace and punctuation
\* collapsed) is one or two greeting words takes the greeting branch, and the
\* returned log has intent = greeting.
C12_GreetingNormalFormIsGreeting ==
    (pc # "idle" /\ GreetingNormalForm(user_message)) =>
        /\ intent = "greeting"
        /\ Returned => (LogHas("intent") /\ log.intent = "greeting")

ContainsProductTerm(text) == \E i \in 1..Len(text) : Lower(text[i]) \in product_words

\* C13: a message that is not a greeting and contains no product-intent term
\* gives the conversation branch, with nothing retrieved and a log of intent
\* conversation that recommends nothing; a message that is not a greeting and
\* contains a product-intent term gives the product branch.
C13_ConversationIsDefault ==
    (Classified /\ ~_is_greeting(user_message)) =>
        /\ ~ContainsProductTerm(user_message) =>
              /\ intent = "conversation"
              /\ retrieved = <<>> /\ intent_products = <<>> /\ candidates = <<>>
              /\ Returned =>
                    /\ log.intent = "conversation"
                    /\ log.recommended_product_ids = <<>>
                    /\ log.recommended_products = <<>>
        /\ ContainsProductTerm(user_message) => intent = "product"

\* a message with a greeting word in it that is neither a greeting nor a
\* product request, answered by the conversation branch
C13_Witness ==
    /\ Returned
    /\ intent = "conversation"
    /\ "salam" \in Range(user_message)
    /\ Len(user_message) = 3

\* --- the log, checked under Spec ---
ContractFields ==
    {"intent", "priority_used", "recommended_product_ids", "recommended_products",
     "llm_unavailable"}

\* C14: every log recommend returns has the five contract fields: intent
\* (greeting, conversation or product), priority_used,
\* recommended_product_ids, recommended_products and a boolean
\* llm_unavailable.
C14_LogHasContractFields ==
    Returned =>
        /\ ContractFields \subseteq DOMAIN log
        /\ log.intent \in {"greeting", "conversation", "product"}
        /\ log.llm_unavailable \in BOOLEAN

\* C15: in every log recommend returns, priority_used is 1, 2, 3 or null.
C15_PriorityUsedInRange ==
    Returned => log.priority_used \in {1, 2, 3, PriorityNone}

\* --- the greeting stripper, checked under SpecStrip ---
\* C16: the greeting stripper is idempotent: stripping the stripped text gives
\* the stripped text, also for texts that begin with several greeting
\* phrases in a row.
C16_StripIdempotent ==
    Len(strip_runs) = 3 => strip_runs[3] = strip_runs[2]

\* the text starts with a greeting phrase: a greeting word that ends the text
\* or is followed by whitespace or punctuation
StartsWithGreetingPhrase(x) ==
    /\ x # <<>>
    /\ x[1] = "G"
    /\ Len(x) >= 2 => IsNonWord(x[2])

\* C17: the greeting stripper returns its input unchanged for every text that
\* does not start with a greeting phrase, among them texts that begin with
\* whitespace or punctuation and texts whose first word has a greeting word
\* as a prefix.
C17_NonGreetingUnchanged ==
    (Len(strip_runs) >= 2 /\ ~StartsWithGreetingPhrase(strip_runs[1])) =>
        strip_runs[2] = strip_runs[1]

\* --- post-processing, checked under SpecPost ---
\* the recent context the turn's branch reads (none without llm_agent or
\* without a user id)
ContextRead ==
    IF llm_agent /\ user_id # "None"
    THEN get_conversation_context(conversation_buffer,
                                  IF intent = "product" THEN 2 ELSE 1)
    ELSE <<>>

\* C18: in every branch the answer is stripped only when the recent context
\* is non-empty and contains a greeting marker; with an empty context or a
\* context without a greeting marker the answer is returned as generated.
C18_StripOnlyAfterGreetingInContext ==
    (Returned /\ ~(ContextRead # <<>> /\ "G" \in Range(ContextRead))) =>
        answer = cascade_answer

\* --- memory reads and writes of a turn, checked under SpecChat ---
InRecommend == pc \notin {"idle", "saved"}

\* what a step may do to the memory: the buffer changes only by the save that
\* follows recommend's return, which appends the turn's interaction; the
\* save leaves answer and log alone; nothing else writes to the index
MemoryStep ==
    /\ conversation_buffer' # conversation_buffer =>
          /\ pc = "done" /\ result = "returned" /\ pc' = "saved"
          /\ conversation_buffer' =
                add_interaction(conversation_buffer,
                                [user |-> user_message, bot |-> answer, turn |-> turn])
    /\ pc = "done" => (answer' = answer /\ log' = log)
    /\ pc # "done" => store' = store

\* C20: recommend only reads the conversation memory: no step of recommend
\* changes the recorded interactions; the turn's interaction is recorded by
\* the save that follows recommend's return, so the buffer the turn reads
\* never has the turn's own interaction in it; and the save, failed or not,
\* leaves the answer and the log as recommend returned them.
C20_RecommendOnlyReadsMemory ==
    /\ [](InRecommend =>
            \A i \in 1..Len(conversation_buffer) : conversation_buffer[i].turn # turn)
    /\ [][MemoryStep]_vars

\* a second turn read the first turn's interaction, and both were recorded
\* although every write to the index failed
C20_Witness ==
    /\ pc = "saved"
    /\ turn = 2
    /\ Len(conversation_buffer) = 2
    /\ conversation_buffer[1].turn = 1
    /\ conversation_buffer[2].turn = 2
    /\ conversation_buffer[2].bot = <<"w">>
    /\ cascade_answer = <<"G", "sp", "w">>
    /\ store["u1"] = <<>>

\* --- concurrent turns, checked under SpecConc ---
SameUser(t1, t2) ==
    /\ t1 # t2
    /\ tpc[t1] # "off" /\ tpc[t2] # "off"
    /\ tloc[t1].user = tloc[t2].user

\* the turn has read its context and has not yet recorded its interaction
BetweenReadAndRecord(t) ==
    \/ tpc[t] = "answer"
    \/ tloc[t].phase = "save" /\ tpc[t] # "end"

AllEnded == \A t \in Turns : tpc[t] = "end"

\* the turn's interaction is in the buffer _user_memories holds for its user
Recorded(t) ==
    LET o == _user_memories[tloc[t].user]
    IN o # 0 /\ \E i \in 1..Len(BufferOf(o)) : BufferOf(o)[i].turn = t

\* C19: turns of one user are serialized on the conversation memory: no two
\* of them are at the same time between their read of the context and their
\* record of the interaction, one buffer object exists per user, and when the
\* turns have finished every interaction is in the user's buffer.
C19_TurnsOfAUserSerialized ==
    /\ \A t1, t2 \in Turns :
          SameUser(t1, t2) => ~(BetweenReadAndRecord(t1) /\ BetweenReadAndRecord(t2))
    /\ \A o1, o2 \in 1..Len(objects) :
          o1 # o2 => objects[o1].user # objects[o2].user
    /\ AllEnded => \A t \in Turns : Recorded(t)

\* --- the moisturizer scenario, checked under SpecMoist ---
\* the catalog products the moisturizer rule accepts for the message
MoisturizerMatches ==
    {i \in 1..Len(products) : _matches_intent(products[i], user_message, "moisturizer")}

SemanticYieldedNothing ==
    \A i \in 1..Len(retrieved) :
        retrieved[i].strategy = "semantic" => retrieved[i].result = <<>>

\* the message asks for a moisturizer and exactly two catalog products match
\* the rule, one of them with comments
MoisturizerScenario ==
    /\ _detect_intent(user_message) = "moisturizer"
    /\ SemanticYieldedNothing
    /\ Cardinality(MoisturizerMatches) = 2
    /\ Cardinality({i \in MoisturizerMatches : HasCommentsData(products[i].id)}) = 1

\* C21: for every message in which the moisturizer sub-intent is detected,
\* when the semantic strategy yields nothing and exactly two catalog products
\* match the moisturizer rule, one with comments and one without, recommend
\* returns priority_used = 1 and recommends only the product with comments.
C21_MoisturizerPrefersCommented ==
    (Returned /\ MoisturizerScenario) =>
        /\ log.priority_used = 1
        /\ \A i \in 1..Len(log.recommended_products) :
              HasCommentsData(log.recommended_products[i].id)
        /\ max_count >= 1 => Len(log.recommended_products) = 1

\* --- the API's conversation histories, checked under SpecApi ---
\* the step handled a request
Handled(op) == api_request'.n = api_request.n + 1 /\ api_request'.op = op

\* the conversation a fetch for the request's user and chat reads
HistoryFor(cache, req) ==
    ConversationOf(cache, get_conversation_key(req.user_id, req.chat_id, req.chat_room_id))

SameConversation(r1, r2) ==
    /\ r1.user_id = r2.user_id
    /\ r1.chat_id = r2.chat_id
    /\ r1.chat_room_id = r2.chat_room_id

\* the last two messages are the user's message and the assistant's answer
EndsWithTurn(msgs, message, text) ==
    /\ Len(msgs) >= 2
    /\ msgs[Len(msgs) - 1] = [role |-> "user", content |-> message]
    /\ msgs[Len(msgs)] = [role |-> "assistant", content |-> text]

\* a chat request answered with success adds two messages to the history of
\* its conversation; a fetch that follows it for the same conversation counts
\* at least two messages and ends with the turn
ChatTurnRecorded ==
    /\ (Handled("chat") /\ api_response'.status = 200 /\ api_response'.success) =>
          /\ Len(HistoryFor(_conversation_cache', api_request')) =
                Len(HistoryFor(_conversation_cache, api_request')) + 2
          /\ EndsWithTurn(HistoryFor(_conversation_cache', api_request'),
                          Strip(api_request'.message), api_response'.response)
    /\ (/\ api_request.op = "chat" /\ api_response.status = 200 /\ api_response.success
        /\ Handled("history")
        /\ SameConversation(api_request, api_request')) =>
          /\ api_response'.total_count >= 2
          /\ api_response'.total_count = Len(HistoryFor(_conversation_cache, api_request))
          /\ api_request'.limit # 1 =>
                EndsWithTurn(api_response'.messages, Strip(api_request.message),
                             api_response.response)

\* C22: after a chat turn for a user and chat is answered successfully, the
\* history fetched for the same user and chat has the user's message followed
\* by the assistant's answer: its total_count is at least 2 and has grown by
\* exactly 2 with the turn.
C22_HistoryGrowsByTurn == [][ChatTurnRecorded]_vars

\* a history fetched after a failed and a successful turn of one conversation
C22_Witness ==
    /\ api_request.op = "history"
    /\ api_response.total_count = 3
    /\ api_response.messages[1].role = "user"
    /\ EndsWithTurn(api_response.messages, <<"w">>, <<"w">>)

\* --- the semantic strategy's candidates, checked under SpecRank ---
\* the position of the first hit for the product in the similarity results
FirstHit(id) ==
    CHOOSE i \in 1..Len(similarity_hits) :
        similarity_hits[i] = id /\ \A j \in 1..(i - 1) : similarity_hits[j] # id

SemanticCandidates == retrieved[1].result

\* C23: the candidate list of the semantic strategy has each product at most
\* once and keeps similarity order: p precedes q in it whenever p's first hit
\* precedes q's first hit in the similarity results.
C23_SemanticKeepsSimilarityOrder ==
    (Retrieved /\ retrieved # <<>> /\ retrieved[1].strategy = "semantic") =>
        /\ \A i, j \in 1..Len(SemanticCandidates) :
              i # j => SemanticCandidates[i].id # SemanticCandidates[j].id
        /\ \A i \in 1..Len(SemanticCandidates) :
              SemanticCandidates[i].id \in Range(similarity_hits)
        /\ \A i, j \in 1..Len(SemanticCandidates) :
              FirstHit(SemanticCandidates[i].id) < FirstHit(SemanticCandidates[j].id)
                  => i < j

\* --- the prompt template, checked under SpecRank ---
\* C24: the prompt template is chosen by priority_used alone: the
\* has-candidates template exactly when priority_used is 1 or 2, the
\* no-candidates template exactly when it is 3, for every max_count and
\* every retrieval outcome.
C24_TemplateFollowsPriority ==
    Ranked =>
        /\ template = "has_candidates" <=> chosen_priority \in {1, 2}
        /\ template = "no_candidates" <=> chosen_priority = 3
        /\ Returned => log.priority_used = chosen_priority

\* --- evidence summaries, checked under SpecSummary ---
\* the source the preference order gives the product
PreferredSource(id) ==
    IF id \in index_meta THEN "faiss_index"
    ELSE IF HasCommentsData(id) THEN "comments"
    ELSE "no_comments"

\* C25: every selected candidate gets exactly one summary entry, in ranker
\* order, whose summary_source is the index source iff the product has an
\* index document, otherwise the comments source iff it has a comment,
\* otherwise the none source with the placeholder text naming the product,
\* whatever evidence the other candidates have.
C25_SummarySourcePreference ==
    Ranked =>
        /\ Len(summaries) = Len(candidates)
        /\ \A i \in 1..Len(summaries) :
              /\ summaries[i].id = candidates[i].id
              /\ summaries[i].summary_source = PreferredSource(candidates[i].id)
              /\ summaries[i].summary_source = "no_comments" =>
                    summaries[i].summary = <<"placeholder", candidates[i].id>>
              /\ summaries[i].summary_source # "no_comments" =>
                    summaries[i].summary[1] \in {"index_digest", "comments_digest"}
        /\ Returned =>
              /\ Len(log.recommended_products) = Len(candidates)
              /\ \A i \in 1..Len(candidates) :
                    /\ log.recommended_products[i].id = candidates[i].id
                    /\ log.recommended_products[i].summary_source =
                          PreferredSource(candidates[i].id)

\* two candidates selected, one with an index document, one with no evidence
C25_Witness ==
    /\ ProductTurnDone
    /\ Len(summaries) = 2
    /\ summaries[1].summary_source = "no_comments"
    /\ summaries[2].summary_source = "faiss_index"

\* --- the rule-based matcher, checked under SpecMatch ---
HydrationTerms == {"abresan", "moisturizer"}
FormTerms == {"krem", "moisturizer"}
NegativeTerms == {"mask", "badan"}

\* the product's text has no negative or body term, a hydration term and a
\* product-form term
IsMoisturizerProduct(p) ==
    /\ p.terms \cap NegativeTerms = {}
    /\ p.terms \cap HydrationTerms # {}
    /\ p.terms \cap FormTerms # {}

\* the rule-based matcher ran in this turn; its result
RuleRan == \E i \in 1..Len(retrieved) : retrieved[i].strategy = "rule"
RuleResult == retrieved[CHOOSE i \in 1..Len(retrieved) : retrieved[i].strategy = "rule"].result

\* C26: under the moisturizer sub-intent the rule-based matcher accepts a
\* product iff its text has no negative term, a hydration term and a
\* product-form term; a product with a negative or body term is rejected even
\* when hydration and form terms are present.
C26_MoisturizerRule ==
    (Retrieved /\ RuleRan /\ _detect_intent(user_message) = "moisturizer") =>
        /\ \A i \in 1..Len(products) :
              (\E j \in 1..Len(RuleResult) : RuleResult[j].id = products[i].id)
                  <=> IsMoisturizerProduct(products[i])
        /\ \A j \in 1..Len(RuleResult) :
              RuleResult[j].terms \cap NegativeTerms = {}

\* a body cream with a hydration term is rejected, a face cream with one is
\* accepted
C26_Witness ==
    /\ Retrieved /\ RuleRan /\ _detect_intent(user_message) = "moisturizer"
    /\ Len(products) = 2
    /\ products[1].terms = {"krem", "abresan", "badan"}
    /\ products[2].terms = {"krem", "abresan"}
    /\ Len(RuleResult) = 1
    /\ RuleResult[1].id = 2

\* --- the popularity fallback, checked under SpecRank ---
PopularityRan == \E i \in 1..Len(retrieved) : retrieved[i].strategy = "popularity"

\* C27: on a product turn with a non-empty catalog and max_count >= 1 the
\* popularity fallback yields a candidate whenever it runs, the candidates
\* are not empty and priority_used is 1 or 2, never 3.
C27_PopularityAlwaysSupplies ==
    (Retrieved /\ products # <<>> /\ max_count >= 1) =>
        /\ PopularityRan => retrieved[Len(retrieved)].result # <<>>
        /\ intent_products # <<>>
        /\ Ranked => (chosen_priority \in {1, 2} /\ candidates # <<>>)
        /\ Returned => log.priority_used \in {1, 2}

\* neither the index nor the rules found anything in a catalog of body
\* products, and the fallback supplied the recommendation
C27_Witness ==
    /\ ProductTurnDone
    /\ max_count >= 1
    /\ Len(retrieved) = 3
    /\ \A i \in 1..Len(products) : ~_is_face(products[i])
    /\ log.priority_used = 2
    /\ Len(log.recommended_products) = 1

\* --- the conversation buffer, checked under SpecBuffer ---
LastN(seq, n) == SubSeq(seq, Max(1, Len(seq) - n + 1), Len(seq))

\* C28: after any sequence of add_interaction calls the buffer holds at most
\* max_buffer_size interactions, and they are the most recently added ones in
\* the order they were added: the oldest is evicted first.
C28_BufferKeepsMostRecent ==
    \A u \in ConcUsers :
        _user_memories[u] # 0 =>
            LET buf == BufferOf(_user_memories[u])
            IN /\ Len(buf) <= max_buffer_size
               /\ buf = LastN(interactions[u], max_buffer_size)

\* twelve interactions were added to an empty memory; the buffer holds the
\* third to the twelfth
C28_Witness ==
    /\ _user_memories["u1"] # 0
    /\ Added("u1") = max_buffer_size + 2
    /\ Len(interactions["u1"]) = max_buffer_size + 2
    /\ Len(BufferOf(_user_memories["u1"])) = max_buffer_size
    /\ BufferOf(_user_memories["u1"])[1].turn = 3
    /\ BufferOf(_user_memories["u1"])[max_buffer_size].turn = max_buffer_size + 2

\* --- the persisted snippets, checked under SpecPersist ---
\* no document that was in the user's index is replaced or removed
NoOverwrite ==
    \A u \in ConcUsers :
        \A id \in DOMAIN meta[u] :
            id \in DOMAIN meta'[u] /\ meta'[u][id] = meta[u][id]

\* C29: distinct interactions of a user are persisted under distinct document
\* ids: recording an interaction never overwrites the persisted snippet of an
\* earlier interaction of the same user, whatever the time between the two
\* recordings.
C29_SnippetsNeverOverwritten == [][NoOverwrite]_vars

\* --- isolation of the API's histories, checked under SpecApi ---
\* the chat a request is for: its chat_id, else its chat_room_id, else "default"
ChatOf(req) == Or(req.chat_id, Or(req.chat_room_id, DEFAULT))

ApiPairs == ApiUsers \X {Or(c, Or(r, DEFAULT)) : c \in ApiChatIds, r \in ApiRooms}

\* the history a fetch returns for the user and chat
HistoryOfPair(cache, pair) ==
    ConversationOf(cache, get_conversation_key(pair[1], pair[2], DEFAULT))

\* a chat turn or a clear for one pair leaves the history of every other pair
\* as it was
OtherPairsUntouched ==
    (Handled("chat") \/ Handled("clear")) =>
        \A pair \in ApiPairs :
            pair # <<api_request'.user_id, ChatOf(api_request')>> =>
                HistoryOfPair(_conversation_cache', pair) =
                    HistoryOfPair(_conversation_cache, pair)

\* C30: the histories the API keeps are isolated per (user_id, chat_id): a
\* chat turn or a clear for one pair never changes the history returned for
\* another pair.
C30_HistoriesIsolated == [][OtherPairsUntouched]_vars

====
